---- MODULE Spec2Model ----
(***************************************************************************)
(* Model of crates/arborium-sysroot/wasm-sysroot/stdio.h and of what a C   *)
(* toolchain does with it: the preprocessor reads the header line by line  *)
(* (conditional inclusion, macro definition, macro expansion with          *)
(* rescanning), the compiler records typedefs, declarations, diagnostics   *)
(* and the external symbols the expanded text references, the statements   *)
(* of the client translation unit take effect on an abstract run-time      *)
(* state, and the linker resolves the referenced symbols against the       *)
(* definitions of the other translation units.                             *)
(***************************************************************************)
EXTENDS Integers, Sequences, FiniteSets, TLC

VARIABLES includes, macros, typedefs, decls, diag, refs, direct,
          prog, nstmts, last, link

vars == <<includes, macros, typedefs, decls, diag, refs, direct,
          prog, nstmts, last, link>>

(* ------------------------------ bounds -------------------------------- *)
MaxIncludes == 2
MaxStmts == 2
MaxArgs == 4
MaxExtDefs == 2

(* --------------------------- the header text --------------------------- *)
Obj(n, b) ==
  [k |-> "define", name |-> n, funlike |-> FALSE, params |-> <<>>,
   variadic |-> FALSE, body |-> b]

Fun(n, ps, va, b) ==
  [k |-> "define", name |-> n, funlike |-> TRUE, params |-> ps,
   variadic |-> va, body |-> b]

\* #ifndef _STDIO_H
ifndef_STDIO_H == [k |-> "ifndef", name |-> "_STDIO_H"]

\* Variant: the guard macro defined under another name.
define_OTHER_H == Obj("_STDIO_H_", <<>>)
\* #define _STDIO_H
define_STDIO_H == Obj("_STDIO_H", <<>>)

\* #define NULL ((void*)0)
NULL == Obj("NULL", <<"(", "(", "void", "*", ")", "0", ")">>)

\* Variant: typedef unsigned int size_t;
size_t_int == [k |-> "typedef", name |-> "size_t",
               type |-> [kind |-> "integer", signed |-> FALSE, rank |-> "int"]]
\* typedef unsigned long size_t;
size_t == [k |-> "typedef", name |-> "size_t",
           type |-> [kind |-> "integer", signed |-> FALSE, rank |-> "long"]]

\* Variant: typedef struct { int fd; } FILE;
FILE_fd == [k |-> "typedef", name |-> "FILE",
            type |-> [kind |-> "struct", fields |-> {"fd"}]]
\* typedef struct {} FILE;
FILE == [k |-> "typedef", name |-> "FILE",
         type |-> [kind |-> "struct", fields |-> {}]]

\* Variant: FILE *stderr; (a definition, not a declaration)
stderr_tentative == [k |-> "decl", name |-> "stderr", storage |-> "none",
                     type |-> "FILE*", function |-> FALSE]
\* extern FILE *stderr;
stderr == [k |-> "decl", name |-> "stderr", storage |-> "extern",
           type |-> "FILE*", function |-> FALSE]

\* Variant: #define fprintf(stream, format, ...) 0
fprintf_stub == Fun("fprintf", <<"stream", "format">>, TRUE, <<"0">>)
\* int fprintf(FILE* stream, const char* format, ...);
fprintf == [k |-> "decl", name |-> "fprintf", storage |-> "extern",
            type |-> "int(FILE*,const char*,...)", function |-> TRUE]

\* Variant: #define snprintf(str, size, format) 0
snprintf_fixed == Fun("snprintf", <<"str", "size", "format">>, FALSE, <<"0">>)
\* #define snprintf(str, size, format, ...) 0
snprintf == Fun("snprintf", <<"str", "size", "format">>, TRUE, <<"0">>)

\* #define vsnprintf(str, size, format, ap) 0
vsnprintf == Fun("vsnprintf", <<"str", "size", "format", "ap">>, FALSE, <<"0">>)

\* Variant: #define fputs(s, stream) fprintf(stream, s)
fputs_fprintf == Fun("fputs", <<"s", "stream">>, FALSE,
                     <<"fprintf", "(", "stream", ",", "s", ")">>)
\* #define fputs(s, stream) 0
fputs == Fun("fputs", <<"s", "stream">>, FALSE, <<"0">>)

\* Variant: #define fputc(c, stream) (c, 0)
fputc_comma == Fun("fputc", <<"c", "stream">>, FALSE,
                   <<"(", "c", ",", "0", ")">>)
\* #define fputc(c, stream) 0
fputc == Fun("fputc", <<"c", "stream">>, FALSE, <<"0">>)

\* Variant: #define fdopen(fd, mode) 0
fdopen_zero == Fun("fdopen", <<"fd", "mode">>, FALSE, <<"0">>)
\* #define fdopen(fd, mode) NULL
fdopen == Fun("fdopen", <<"fd", "mode">>, FALSE, <<"NULL">>)

\* Variant: #define fclose(stream) (stream, 0)
fclose_stream == Fun("fclose", <<"stream">>, FALSE,
                     <<"(", "stream", ",", "0", ")">>)
\* #define fclose(stream) 0
fclose == Fun("fclose", <<"stream">>, FALSE, <<"0">>)

\* #endif
endif_STDIO_H == [k |-> "endif"]

\* The header, one element per non-blank line, in file order.
Header ==
  << ifndef_STDIO_H, define_STDIO_H, NULL, size_t, FILE, stderr, fprintf,
     snprintf, vsnprintf, fputs, fputc, fdopen, fclose, endif_STDIO_H >>

(* --------------------------- the preprocessor -------------------------- *)
\* f with key n bound to v (a macro table or a declaration table).
Bind(f, n, v) == [x \in DOMAIN f \cup {n} |-> IF x = n THEN v ELSE f[x]]

EmptyTable == [x \in {} |-> x]

MacroOf(l) == [funlike |-> l.funlike, params |-> l.params,
               variadic |-> l.variadic, body |-> l.body]

\* A typedef clashes with an earlier one of the same name when it names a
\* different type; every `struct {...}` without a tag is a type of its own.
RECURSIVE Clashes(_, _, _)
Clashes(tds, l, i) ==
  IF i > Len(tds) THEN FALSE
  ELSE IF tds[i].name = l.name
          /\ (l.type.kind = "struct" \/ tds[i].type.kind = "struct"
              \/ tds[i].type # l.type)
       THEN TRUE
       ELSE Clashes(tds, l, i + 1)

\* One line of the header read in the state s = [macros, typedefs, decls,
\* diag, skip]; skip counts the conditional groups being skipped.
Line(s, l) ==
  IF l.k = "ifndef"
  THEN IF s.skip > 0 \/ l.name \in DOMAIN s.macros
       THEN [s EXCEPT !.skip = s.skip + 1]
       ELSE s
  ELSE IF l.k = "endif"
  THEN IF s.skip > 0 THEN [s EXCEPT !.skip = s.skip - 1] ELSE s
  ELSE IF s.skip > 0 THEN s
  ELSE IF l.k = "define"
  THEN IF l.name \in DOMAIN s.macros /\ s.macros[l.name] # MacroOf(l)
       THEN [s EXCEPT !.diag = s.diag \cup {"macro redefined"}]
       ELSE [s EXCEPT !.macros = Bind(s.macros, l.name, MacroOf(l))]
  ELSE IF l.k = "typedef"
  THEN [s EXCEPT !.typedefs = Append(s.typedefs, [name |-> l.name, type |-> l.type]),
                 !.diag = IF Clashes(s.typedefs, l, 1)
                          THEN s.diag \cup {"typedef redefinition"}
                          ELSE s.diag]
  ELSE \* l.k = "decl"
       IF l.name \in DOMAIN s.decls /\ s.decls[l.name].type # l.type
       THEN [s EXCEPT !.diag = s.diag \cup {"conflicting types"}]
       ELSE [s EXCEPT !.decls =
               Bind(s.decls, l.name,
                    [storage |-> l.storage, type |-> l.type,
                     function |-> l.function,
                     count |-> IF l.name \in DOMAIN s.decls
                               THEN s.decls[l.name].count + 1 ELSE 1])]

RECURSIVE ReadLines(_, _, _)
ReadLines(s, h, i) ==
  IF i > Len(h) THEN s ELSE ReadLines(Line(s, h[i]), h, i + 1)

\* #include <stdio.h> in the translation unit whose state is s.
IncludeHeader(s) == ReadLines([s EXCEPT !.skip = 0], Header, 1)

(* --------------------------- macro expansion --------------------------- *)
RECURSIVE IndexOf(_, _, _)
IndexOf(seq, x, i) ==
  IF i > Len(seq) THEN 0 ELSE IF seq[i] = x THEN i ELSE IndexOf(seq, x, i + 1)

\* Rescanning of a token sequence: every object-like macro name outside the
\* hide set is replaced by its (rescanned) replacement list.  No replacement
\* list of the header holds a function-like macro name, so none is re-invoked
\* here.
RECURSIVE Rescan(_, _, _)
Rescan(mt, toks, hide) ==
  IF toks = <<>> THEN <<>>
  ELSE LET t == Head(toks) IN
       IF t \in DOMAIN mt /\ ~mt[t].funlike /\ t \notin hide
       THEN Rescan(mt, mt[t].body, hide \cup {t}) \o Rescan(mt, Tail(toks), hide)
       ELSE <<t>> \o Rescan(mt, Tail(toks), hide)

\* args[from..] separated by commas: the text __VA_ARGS__ stands for.
RECURSIVE Joined(_, _)
Joined(args, from) ==
  IF from > Len(args) THEN <<>>
  ELSE IF from = Len(args) THEN <<args[from]>>
  ELSE <<args[from], ",">> \o Joined(args, from + 1)

\* The replacement list with each parameter replaced by its (expanded)
\* argument; a token that is no parameter is copied.
RECURSIVE Subst(_, _, _, _)
Subst(mt, def, args, body) ==
  IF body = <<>> THEN <<>>
  ELSE LET t == Head(body)
           i == IndexOf(def.params, t, 1)
           a == IF i > 0
                THEN (IF i <= Len(args) THEN Rescan(mt, <<args[i]>>, {}) ELSE <<>>)
                ELSE IF def.variadic /\ t = "__VA_ARGS__"
                THEN Rescan(mt, Joined(args, Len(def.params) + 1), {})
                ELSE <<t>>
       IN a \o Subst(mt, def, args, Tail(body))

\* The number of arguments the preprocessor counts between the parentheses:
\* `m()` is one empty argument for a macro that has parameters.
ArgsSeen(def, args) ==
  IF Len(args) = 0 /\ (Len(def.params) > 0 \/ def.variadic) THEN 1 ELSE Len(args)

\* Whether the invocation fits the parameter list: exactly the named
\* parameters, or at least them when the list ends in `...`.
Accepts(def, args) ==
  IF def.variadic THEN ArgsSeen(def, args) >= Len(def.params)
  ELSE ArgsSeen(def, args) = Len(def.params)

\* The text `fn(args)` after preprocessing: the macro's expansion when fn is
\* a function-like macro, the call itself (arguments expanded) otherwise.
Expand(mt, fn, args) ==
  IF fn \in DOMAIN mt /\ mt[fn].funlike
  THEN IF Accepts(mt[fn], args)
       THEN [ok |-> TRUE,
             tokens |-> Rescan(mt, Subst(mt, mt[fn], args, mt[fn].body), {fn})]
       ELSE [ok |-> FALSE, tokens |-> <<>>]
  ELSE [ok |-> TRUE,
        tokens |-> <<fn, "(">> \o Rescan(mt, Joined(args, 1), {}) \o <<")">>]

(* ------------------- compiling and running a statement ----------------- *)
Range(seq) == {seq[i] : i \in DOMAIN seq}

\* The number of tokens of seq that are in S.
Count(seq, S) == Cardinality({i \in DOMAIN seq : seq[i] \in S})

\* The declared external names the expanded text mentions.
Refs(dt, toks) == {t \in Range(toks) : t \in DOMAIN dt}

\* The run-time effect of evaluating the expanded text: each `i++` counts i
\* up, each call of a declared function is one call of external code.
Exec(dt, toks, p) ==
  [i |-> p.i + Count(toks, {"i++"}),
   calls |-> p.calls + Count(toks, {t \in DOMAIN dt : dt[t].function})]

IntZero == [type |-> "int", v |-> 0]
NullPtr == [type |-> "void*", v |-> 0]
Unknown == [type |-> "?", v |-> 0 - 1]

\* The value of a constant expression: 0, a cast of it to void*, the last
\* operand of a comma expression, parentheses removed.
RECURSIVE Value(_)
Value(toks) ==
  LET n == Len(toks) IN
  IF n = 1 THEN (IF toks[1] = "0" THEN IntZero ELSE Unknown)
  ELSE IF n = 5 /\ SubSeq(toks, 1, 4) = <<"(", "void", "*", ")">>
  THEN [type |-> "void*", v |-> Value(<<toks[5]>>).v]
  ELSE IF n >= 3 /\ toks[1] = "(" /\ toks[n] = ")"
  THEN Value(SubSeq(toks, 2, n - 1))
  ELSE IF n >= 3 /\ toks[n - 1] = ","
  THEN Value(<<toks[n]>>)
  ELSE Unknown

\* The latest typedef of name n (a record with kind "none" when there is none).
RECURSIVE TypeOf(_, _, _)
TypeOf(tds, n, i) ==
  IF i = 0 THEN [kind |-> "none"]
  ELSE IF tds[i].name = n THEN tds[i].type ELSE TypeOf(tds, n, i - 1)

(* --------------------------- the target ABI ---------------------------- *)
Targets == {"wasm32", "wasm64"}

PtrBits(t) == IF t = "wasm32" THEN 32 ELSE 64

\* Width of the integer type of the given rank: int is 32 bits, long has
\* the width of a pointer (ILP32 on wasm32, LP64 on wasm64).
IntBits(t, rank) == IF rank = "long" THEN PtrBits(t) ELSE 32

\* The w-bit two's-complement representation of the constant c converted to
\* an integer type of width w: 16-bit limbs, least significant limb first.
Bits(c, w) ==
  [j \in 1..(w \div 16) |->
     IF c = "0" THEN 0
     ELSE IF c = "1" THEN (IF j = 1 THEN 1 ELSE 0)
     ELSE 65535]   \* "-1"

Width(a) == 16 * Len(a)

Not(a) == [j \in DOMAIN a |-> 65535 - a[j]]

RECURSIVE AddFrom(_, _, _, _, _)
AddFrom(a, b, j, c, acc) ==
  IF j > Len(a) THEN acc
  ELSE AddFrom(a, b, j + 1, (a[j] + b[j] + c) \div 65536,
               Append(acc, (a[j] + b[j] + c) % 65536))

\* a + b + cin in the width of a: the carry out of the top limb is dropped.
AddBits(a, b, cin) == AddFrom(a, b, 1, cin, <<>>)

Arith(op, a, b) == IF op = "+" THEN AddBits(a, b, 0) ELSE AddBits(a, Not(b), 1)

\* Whether a value of integer type ty with these bits is below zero.
IsNegative(ty, bits) == ty.signed /\ bits[Len(bits)] >= 32768

(* ------------------------------ the linker ----------------------------- *)
\* The external names this translation unit itself defines: an object
\* declared at file scope without `extern` is a definition.
OwnDefs(dt) == {n \in DOMAIN dt : ~dt[n].function /\ dt[n].storage # "extern"}

\* The link of this translation unit with others that hold ext[n]
\* definitions of n: a referenced name that nothing defines is unresolved, a
\* name defined more than once is a duplicate symbol.
LinkResult(dt, rf, ext) ==
  LET cnt(n) == (IF n \in OwnDefs(dt) THEN 1 ELSE 0)
                + (IF n \in DOMAIN ext THEN ext[n] ELSE 0)
      und == {n \in rf : cnt(n) = 0}
      dup == {n \in DOMAIN dt \cup DOMAIN ext : cnt(n) > 1}
  IN [done |-> TRUE, ext |-> ext, unresolved |-> und, duplicate |-> dup,
      ok |-> und = {} /\ dup = {}]

(* ------------------------------- the state ----------------------------- *)
\* Argument expressions of a call site: one with a side effect, one that
\* names the declared stream, one constant.
ArgAtoms == {"i++", "stderr", "0"}

\* Argument lists of a call site: every length up to MaxArgs, of each atom.
ArgLists == {[j \in 1..n |-> a] : n \in 0..MaxArgs, a \in ArgAtoms}

MacroNames == {"snprintf", "vsnprintf", "fputs", "fputc", "fdopen", "fclose"}
RealNames == {"fprintf", "stderr"}
StreamExprs == {"stderr", "NULL", "fp"}
PtrInits == {"NULL", "stderr"}
\* The value printed by fprintf(stream, "%d", arg).
FormatArgs == {"i++", "0"}
MemberNames == {"fd", "_flags", "buf"}
SizeConsts == {"0", "1", "-1"}

NoStmt == [kind |-> "none", name |-> "", args |-> <<>>, ok |-> TRUE,
           tokens |-> <<>>, value |-> Unknown]

NoLink == [done |-> FALSE, ext |-> EmptyTable, unresolved |-> {},
           duplicate |-> {}, ok |-> FALSE]

Init ==
  /\ includes = 0
  /\ macros = EmptyTable
  /\ typedefs = <<>>
  /\ decls = EmptyTable
  /\ diag = {}
  /\ refs = {}
  /\ direct = {}
  /\ prog = [i |-> 0, calls |-> 0]
  /\ nstmts = 0
  /\ last = NoStmt
  /\ link = NoLink

Editing == ~link.done

\* #include <stdio.h>
Include ==
  /\ Editing
  /\ includes < MaxIncludes
  /\ LET s == IncludeHeader([macros |-> macros, typedefs |-> typedefs,
                             decls |-> decls, diag |-> diag, skip |-> 0])
     IN /\ macros' = s.macros
        /\ typedefs' = s.typedefs
        /\ decls' = s.decls
        /\ diag' = s.diag
  /\ includes' = includes + 1
  /\ UNCHANGED <<refs, direct, prog, nstmts, last, link>>

\* The statement `fn(args);` of the client: preprocessed, compiled, run.
Call(kind, fn, args) ==
  /\ Editing
  /\ includes >= 1
  /\ nstmts < MaxStmts
  /\ LET e == Expand(macros, fn, args) IN
       /\ last' = [kind |-> kind, name |-> fn, args |-> args, ok |-> e.ok,
                   tokens |-> e.tokens, value |-> Value(e.tokens)]
       /\ diag' = IF e.ok THEN diag ELSE diag \cup {"macro argument count"}
       /\ refs' = refs \cup Refs(decls, e.tokens)
       /\ prog' = Exec(decls, e.tokens, prog)
  /\ nstmts' = nstmts + 1
  /\ UNCHANGED <<includes, macros, typedefs, decls, link>>

\* A call site of one of the six substituted names, with any arguments.
MacroCall(m, args) ==
  /\ Call("macro", m, args)
  /\ UNCHANGED direct

\* fprintf(stream, "%d", arg);
FprintfCall(stream, arg) ==
  /\ Call("fprintf", "fprintf", <<stream, "\"%d\"", arg>>)
  /\ direct' = direct \cup ({"fprintf", stream, arg} \cap RealNames)

\* The expression statement `e;` written without any macro.
Stmt(e) ==
  /\ Editing
  /\ includes >= 1
  /\ nstmts < MaxStmts
  /\ LET toks == Rescan(macros, <<e>>, {}) IN
       /\ last' = [kind |-> "stmt", name |-> e, args |-> <<>>, ok |-> TRUE,
                   tokens |-> toks, value |-> Value(toks)]
       /\ refs' = refs \cup Refs(decls, toks)
       /\ prog' = Exec(decls, toks, prog)
  /\ direct' = direct \cup ({e} \cap RealNames)
  /\ nstmts' = nstmts + 1
  /\ UNCHANGED <<includes, macros, typedefs, decls, diag, link>>

\* FILE *p = init;
DeclarePtr(init) ==
  /\ Editing
  /\ includes >= 1
  /\ nstmts < MaxStmts
  /\ LET toks == Rescan(macros, <<init>>, {})
         fits == /\ TypeOf(typedefs, "FILE", Len(typedefs)).kind # "none"
                 /\ \/ Value(toks).v = 0
                    \/ /\ Len(toks) = 1
                       /\ toks[1] \in DOMAIN decls
                       /\ decls[toks[1]].type = "FILE*"
     IN /\ last' = [kind |-> "pointer", name |-> init, args |-> <<>>,
                    ok |-> fits, tokens |-> toks, value |-> Value(toks)]
        /\ diag' = IF fits THEN diag ELSE diag \cup {"incompatible initializer"}
        /\ refs' = refs \cup Refs(decls, toks)
  /\ direct' = direct \cup ({init} \cap RealNames)
  /\ nstmts' = nstmts + 1
  /\ UNCHANGED <<includes, macros, typedefs, decls, prog, link>>

\* `FILE f; f.m;` (via = ".") or `stderr->m;` (via = "->").
MemberAccess(via, m) ==
  /\ Editing
  /\ includes >= 1
  /\ nstmts < MaxStmts
  /\ LET ty == TypeOf(typedefs, "FILE", Len(typedefs))
         has == ty.kind = "struct" /\ m \in ty.fields
         toks == IF via = "->" THEN <<"stderr", "->", m>> ELSE <<"f", ".", m>>
     IN /\ last' = [kind |-> "member", name |-> m, args |-> <<via>>,
                    ok |-> has, tokens |-> toks, value |-> Unknown]
        /\ diag' = IF has THEN diag ELSE diag \cup {"no member"}
        /\ refs' = refs \cup Refs(decls, toks)
        /\ direct' = direct \cup (Range(toks) \cap RealNames)
  /\ nstmts' = nstmts + 1
  /\ UNCHANGED <<includes, macros, typedefs, decls, prog, link>>

\* size_t r = (size_t)a op (size_t)b; compiled for target t.
SizeArith(t, op, a, b) ==
  /\ Editing
  /\ includes >= 1
  /\ nstmts < MaxStmts
  /\ LET ty == TypeOf(typedefs, "size_t", Len(typedefs))
         w == IntBits(t, ty.rank)
         r == Arith(op, Bits(a, w), Bits(b, w))
     IN last' = [kind |-> "size_t", name |-> op, args |-> <<t, a, b>>, ok |-> TRUE,
                 tokens |-> <<>>,
                 value |-> [bits |-> r, negative |-> IsNegative(ty, r)]]
  /\ nstmts' = nstmts + 1
  /\ UNCHANGED <<includes, macros, typedefs, decls, diag, refs,
                 direct, prog, link>>

\* The link of the compiled translation unit with the rest of the program,
\* which holds n definitions of stderr and, if f, one of fprintf.
Link(n, f) ==
  /\ Editing
  /\ includes >= 1
  /\ diag = {}
  /\ link' = LinkResult(decls, refs,
                        [x \in RealNames |->
                           IF x = "stderr" THEN n ELSE IF f THEN 1 ELSE 0])
  /\ UNCHANGED <<includes, macros, typedefs, decls, diag, refs,
                 direct, prog, nstmts, last>>

Next ==
  \/ Include
  \/ \E m \in MacroNames, args \in ArgLists : MacroCall(m, args)
  \/ \E s \in StreamExprs, a \in FormatArgs : FprintfCall(s, a)
  \/ \E e \in ArgAtoms : Stmt(e)
  \/ \E p \in PtrInits : DeclarePtr(p)
  \/ \E via \in {".", "->"}, m \in MemberNames : MemberAccess(via, m)
  \/ \E t \in Targets, op \in {"+", "-"}, a \in SizeConsts, b \in SizeConsts :
       SizeArith(t, op, a, b)
  \/ \E n \in 0..MaxExtDefs, f \in BOOLEAN : Link(n, f)

Spec == Init /\ [][Next]_vars

(* ------------------------------ properties ----------------------------- *)
NullTokens == <<"(", "(", "void", "*", ")", "0", ")">>

\* The argument counts each substituted name's parameter list takes.
Fits(name, n) ==
  IF name \in {"fputs", "fputc", "fdopen"} THEN n = 2
  ELSE IF name = "vsnprintf" THEN n = 4
  ELSE IF name = "fclose" THEN n <= 1
  ELSE n >= 3   \* snprintf

\* C1: a call site of a substituted macro that the preprocessor accepts
\* expands, whatever its argument expressions are, to the documented literal:
\* snprintf, vsnprintf, fputs, fputc and fclose to the integer constant 0,
\* fdopen to ((void*)0), whose value is the null pointer; NULL itself
\* initialises a FILE* and has that same value.
C1_ExpansionIsLiteral ==
  /\ (last.kind = "macro" /\ last.ok /\ last.name # "fdopen")
       => (last.tokens = <<"0">> /\ last.value = [type |-> "int", v |-> 0])
  /\ (last.kind = "macro" /\ last.ok /\ last.name = "fdopen")
       => (last.tokens = NullTokens /\ last.value = [type |-> "void*", v |-> 0])
  /\ (last.kind = "pointer" /\ last.name = "NULL")
       => (last.ok /\ last.tokens = NullTokens
           /\ last.value = [type |-> "void*", v |-> 0])

C1_Witness ==
  /\ last.kind = "macro" /\ last.name = "fdopen" /\ last.ok
  /\ last.args = <<"i++", "i++">>
  /\ last.value = [type |-> "void*", v |-> 0]

\* C2: a call site of a substituted macro leaves the program state as it
\* was: no argument is evaluated (i keeps its value), no external code is
\* called, and the tables of macros, typedefs and declarations the header
\* set up are the same after the call.
C2_NoEffect ==
  [][(last'.kind = "macro" /\ nstmts' = nstmts + 1)
       => (prog' = prog /\ macros' = macros /\ typedefs' = typedefs
           /\ decls' = decls)]_vars

C2_Witness ==
  /\ last.kind = "macro" /\ last.ok
  /\ "i++" \in Range(last.args)
  /\ nstmts = 2
  /\ prog = [i |-> 0, calls |-> 0]

\* C3 as stated: a substituted macro expands to its literal for every number
\* of arguments at the call site.
C3_AnyArgumentCount ==
  last.kind = "macro" =>
    (last.ok /\ last.tokens = IF last.name = "fdopen" THEN NullTokens ELSE <<"0">>)

\* C3 amended: a substituted macro expands to its literal exactly for the
\* argument counts its parameter list takes (two for fputs, fputc and fdopen,
\* four for vsnprintf, one or an empty list for fclose, three or more for
\* snprintf); any other count is a preprocessing error and nothing is
\* expanded.
C3_AcceptedCounts ==
  last.kind = "macro" =>
    /\ last.ok <=> Fits(last.name, Len(last.args))
    /\ last.ok =>
         last.tokens = IF last.name = "fdopen" THEN NullTokens ELSE <<"0">>
    /\ ~last.ok => (last.tokens = <<>> /\ "macro argument count" \in diag)

C3_Witness ==
  /\ last.kind = "macro" /\ last.name = "fputs"
  /\ Len(last.args) = 3
  /\ ~last.ok

\* C4: a translation unit that includes the header and names neither fprintf
\* nor stderr outside macro arguments references no external symbol: its
\* link has nothing unresolved and succeeds with no definition supplied.
C4_NoSymbolDependency ==
  (includes >= 1 /\ direct = {}) =>
    /\ refs = {}
    /\ link.done =>
         /\ link.unresolved = {}
         /\ (\A x \in DOMAIN link.ext : link.ext[x] = 0) => link.ok

C4_Witness ==
  /\ link.done /\ link.ok
  /\ \A x \in DOMAIN link.ext : link.ext[x] = 0
  /\ direct = {}
  /\ nstmts = 2
  /\ last.kind = "macro" /\ last.ok

\* The translation unit is the one statement fprintf(stream, "%d", arg),
\* linked with no definition of fprintf.
OnlyFprintfLinked ==
  /\ link.done
  /\ nstmts = 1
  /\ last.kind = "fprintf"
  /\ link.ext["fprintf"] = 0

\* C5 as stated: such a unit compiles, fails to link, and the unresolved
\* symbol is fprintf and nothing else.
C5_ExactlyFprintf ==
  OnlyFprintfLinked => (last.ok /\ ~link.ok /\ link.unresolved = {"fprintf"})

\* C5 amended: such a unit compiles and fails to link with fprintf
\* unresolved; stderr is unresolved with it exactly when the call names
\* stderr and no definition of stderr is linked, and nothing else is.
C5_FprintfUnresolved ==
  OnlyFprintfLinked =>
    /\ last.ok /\ ~link.ok
    /\ "fprintf" \in link.unresolved
    /\ link.unresolved \subseteq {"fprintf", "stderr"}
    /\ "stderr" \in link.unresolved
         <=> ("stderr" \in Range(last.args) /\ link.ext["stderr"] = 0)

C5_Witness ==
  /\ OnlyFprintfLinked
  /\ last.args[1] = "NULL"
  /\ ~link.ok
  /\ link.unresolved = {"fprintf"}

\* C6: the header declares stderr once, extern, of type FILE*, and does not
\* define it; a linked program that references stderr links only with exactly
\* one definition supplied: with none stderr is unresolved, with two or more
\* it is a duplicate symbol.
C6_StderrDefinedElsewhere ==
  /\ includes >= 1 =>
       /\ "stderr" \in DOMAIN decls
       /\ decls["stderr"].storage = "extern"
       /\ decls["stderr"].type = "FILE*"
       /\ decls["stderr"].count = 1
       /\ "stderr" \notin OwnDefs(decls)
  /\ (link.done /\ "stderr" \in refs) =>
       /\ link.ok => link.ext["stderr"] = 1
       /\ link.ext["stderr"] = 0 => "stderr" \in link.unresolved
       /\ link.ext["stderr"] >= 2 => "stderr" \in link.duplicate
       /\ link.ext["stderr"] = 1 =>
            ("stderr" \notin link.unresolved /\ "stderr" \notin link.duplicate)

C6_Witness ==
  /\ link.done /\ link.ok
  /\ "stderr" \in refs
  /\ link.ext["stderr"] = 1

\* C7: on wasm32 and wasm64 a size_t value has as many bits as a pointer (32
\* and 64), is never negative, and its arithmetic wraps: (size_t)-1 + 1 is 0,
\* 0 - 1 is the all-ones value, and subtracting b from a + b gives a back.
C7_SizeT ==
  last.kind = "size_t" =>
    LET t == last.args[1]
        a == last.args[2]
        b == last.args[3]
        w == IF t = "wasm32" THEN 32 ELSE 64
        r == last.value.bits
    IN /\ Width(r) = w
       /\ ~last.value.negative
       /\ \A j \in DOMAIN r : r[j] \in 0..65535
       /\ (last.name = "+" /\ a = "-1" /\ b = "1") => \A j \in DOMAIN r : r[j] = 0
       /\ (last.name = "-" /\ a = "0" /\ b = "1") => \A j \in DOMAIN r : r[j] = 65535
       /\ last.name = "+" => Arith("-", r, Bits(b, w)) = Bits(a, w)

C7_Witness ==
  /\ last.kind = "size_t" /\ last.name = "-"
  /\ last.args = <<"wasm64", "0", "1">>
  /\ last.value.bits = <<65535, 65535, 65535, 65535>>
  /\ ~last.value.negative

\* C8: FILE has no fields: every member access, through a FILE object or
\* through stderr, is a compile error for every member name and the unit
\* cannot be linked, while a FILE* initialised from NULL or stderr compiles.
C8_FileOpaque ==
  /\ includes >= 1 =>
       /\ TypeOf(typedefs, "FILE", Len(typedefs)).kind = "struct"
       /\ TypeOf(typedefs, "FILE", Len(typedefs)).fields = {}
  /\ last.kind = "member" => (~last.ok /\ "no member" \in diag /\ ~link.done)
  /\ last.kind = "pointer" => last.ok

C8_Witness ==
  /\ last.kind = "member" /\ last.name = "fd" /\ last.args = <<"->">>
  /\ "no member" \in diag

\* C9: stderr passed to fputs, fputc or fclose is dropped from the expansion:
\* unless the unit names stderr outside macro arguments it does not reference
\* the symbol, and its link never reports stderr unresolved.
C9_StreamArgumentDiscarded ==
  /\ (last.kind = "macro" /\ last.ok /\ last.name \in {"fputs", "fputc", "fclose"})
       => "stderr" \notin Range(last.tokens)
  /\ "stderr" \notin direct =>
       /\ "stderr" \notin refs
       /\ link.done => "stderr" \notin link.unresolved

C9_Witness ==
  /\ link.done /\ link.ok
  /\ link.ext["stderr"] = 0
  /\ last.kind = "macro" /\ last.name = "fclose" /\ last.ok
  /\ last.args = <<"stderr">>

\* C10: after one inclusion or more the unit holds what one inclusion gives:
\* the eight macros, FILE and size_t typedef'd once each, stderr and fprintf
\* declared once each, and no redefinition diagnostic.
C10_IncludeIdempotent ==
  includes >= 1 =>
    /\ DOMAIN macros = {"_STDIO_H", "NULL"} \cup MacroNames
    /\ Len(typedefs) = 2
    /\ {typedefs[j].name : j \in DOMAIN typedefs} = {"size_t", "FILE"}
    /\ DOMAIN decls = RealNames
    /\ \A n \in DOMAIN decls : decls[n].count = 1
    /\ diag \cap {"typedef redefinition", "macro redefined", "conflicting types"} = {}

C10_Witness ==
  /\ includes = 2
  /\ Len(typedefs) = 2
  /\ diag = {}
  /\ nstmts = 1

====
